---- MODULE Spec2Model ----
(***************************************************************************)
(* Axon core: the HTTP servers (axon_main.py, main_with_tools.py,          *)
(* main_with_rag.py) and the keyword router of the clients                 *)
(* (text_client.py, voice_client.py).                                      *)
(*                                                                         *)
(* A server handles one request at a time.  Every blocking call to an      *)
(* external collaborator (Ollama chat model, Gemini, FAISS retriever) is   *)
(* split in the call, made by the handler, and the reply (a value or an    *)
(* exception), chosen by the environment.                                  *)
(***************************************************************************)
EXTENDS Integers, Sequences, FiniteSets, TLC

VARIABLES
    server,          \* which server file is running
    env,             \* what the module-level code found at start-up
    ollama_client,   \* axon_main.py:45-49
    tools_model,     \* axon_main.py:99-104, main_with_tools.py:79
    rag_chain,       \* axon_main.py:164-178, main_with_rag.py:93
    db,              \* the loaded FAISS index: sequence of page contents
    pc,              \* position of the request being handled
    endpoint,        \* handler of the request being handled
    query,           \* request.query
    x,               \* the dictionary rag_chain.invoke builds up
    seen,            \* the argument each RAG component was invoked with
    chat,            \* messages sent in the Gemini chat session
    tool,            \* function_call of the first Gemini reply and its result
    calls,           \* trace of calls / returns / raises of this request
    result,          \* the value the handler returned
    utterance,       \* router: the string given to choose_endpoint
    text_endpoint,   \* router: what text_client.choose_endpoint returned
    voice_endpoint,  \* router: what voice_client.choose_endpoint returned
    threadpool,      \* chat_ollama requests running in worker threads
    client,          \* which client program runs: text_client.py or voice_client.py
    cpc,             \* position of the client in its main loop
    listened,        \* voice client: query, the utterance heard at the top of the loop
    command,         \* the command typed or spoken
    posted,          \* the request sent for this command
    sent,            \* requests sent in this pass of the client's loop
    data,            \* what came back from requests.post
    command_to_run,  \* the text after EXECUTE_CMD:
    confirmation,    \* the user's answer to the confirmation prompt
    ran              \* commands given to subprocess.run for this server response

vars == <<server, env, ollama_client, tools_model, rag_chain, db, pc, endpoint,
          query, x, seen, chat, tool, calls, result, utterance, text_endpoint,
          voice_endpoint, threadpool, client, cpc, listened, command, posted, sent,
          data, command_to_run, confirmation, ran>>

startup == <<server, env, ollama_client, tools_model, rag_chain, db>>
router == <<utterance, text_endpoint, voice_endpoint>>
clients == <<client, cpc, listened, command, posted, sent, data, command_to_run,
             confirmation, ran>>

(***************************************************************************)
(* Bounds                                                                  *)
(***************************************************************************)
MaxChunks == 6
MaxFrags == 3
MaxThreads == 1
MaxDocs == 3

(***************************************************************************)
(* Small helpers                                                           *)
(***************************************************************************)
Min(a, b) == IF a <= b THEN a ELSE b

None == "None"

Questions == {"q1", "q2"}
Rewrites == Questions \cup {"step-back"}
Answers == {"answer"}
Exceptions == {"ConnectionError"}

Call(c) == [comp |-> c, ev |-> "call"]
Return(c) == [comp |-> c, ev |-> "return"]
Raise(c) == [comp |-> c, ev |-> "raise"]

(***************************************************************************)
(* Values a handler returns                                                *)
(***************************************************************************)
ChatResponse(text) == [type |-> "ChatResponse", fields |-> {"response"}, response |-> text]

\* `return {"error": msg}, code`: a Python 2-tuple of a dict and an int
ErrorTuple(msg, code) == [type |-> "tuple", fields |-> {"error"}, error |-> msg, status |-> code]

NoResult == [type |-> "NoResult", fields |-> {}]

(***************************************************************************)
(* Vector store and retriever                                              *)
(***************************************************************************)
K == 5

page_content(i) ==
    CASE i = 1 -> <<"alpha">>
      [] i = 2 -> <<"beta", "gamma">>
      [] i = 3 -> << >>
      [] i = 4 -> <<"alpha">>
      [] i = 5 -> <<"delta">>
      [] OTHER -> <<"omega">>

\* faiss_db as written by ingest.py: n >= 1 chunks
Index(n) == [i \in 1..n |-> page_content(i)]

Document(index, i) == [id |-> i, page_content |-> index[i]]

Abs(n) == IF n < 0 THEN -n ELSE n

\* The embedding model and the FAISS metric are external.  An embedding is a
\* point on a line: chunk i sits at i, a query at some e in Embeddings(index),
\* and the index ranks chunks by distance to the query, nearest first.
Embeddings(index) == 0..(Len(index) + 1)

Closer(e, i, j) == Abs(i - e) < Abs(j - e) \/ (Abs(i - e) = Abs(j - e) /\ i < j)

Nearest(e, ids) == CHOOSE i \in ids : \A j \in ids \ {i} : Closer(e, i, j)

RECURSIVE Ranked(_, _, _)
Ranked(e, ids, m) ==
    IF m = 0 \/ ids = {} THEN << >>
    ELSE LET i == Nearest(e, ids) IN <<i>> \o Ranked(e, ids \ {i}, m - 1)

\* db.as_retriever(search_kwargs={"k": k}) queried with an embedding e
similarity_search(index, e, k) ==
    LET ids == Ranked(e, 1..Len(index), k)
    IN [i \in 1..Len(ids) |-> Document(index, ids[i])]

\* the retriever without its k: every chunk of the index comes back
RetrieverResults_all(index, k) ==
    { similarity_search(index, e, Len(index)) : e \in Embeddings(index) }

RetrieverResults(index, k) == { similarity_search(index, e, k) : e \in Embeddings(index) }

RECURSIVE Join(_, _)
Join(parts, sep) ==
    IF parts = << >> THEN << >>
    ELSE IF Len(parts) = 1 THEN parts[1]
    ELSE parts[1] \o sep \o Join(Tail(parts), sep)

\* a join that leaves out the chunks without text
format_docs_nonempty(docs) ==
    LET kept == SelectSeq(docs, LAMBDA doc : doc.page_content # << >>)
    IN Join([i \in 1..Len(kept) |-> kept[i].page_content], <<"\n\n">>)

format_docs(docs) == Join([i \in 1..Len(docs) |-> docs[i].page_content], <<"\n\n">>)

step_back_prompt(d) == [question |-> d.question]

\* the answer prompt filled with the rewritten question
prompt_step_back(d) == [context |-> d.context, question |-> d.step_back_query]

prompt(d) == [context |-> d.context, question |-> d.question]

EmptyX == [question |-> None, step_back_query |-> None, docs |-> << >>, context |-> << >>]
NoPrompt == [context |-> << >>, question |-> None]
EmptySeen == [query_llm |-> None, retriever |-> None, retriever_k |-> 0, answer_llm |-> NoPrompt]
EmptyTool ==
    [name |-> None, args |-> {}, result |-> << >>, browser |-> "not called",
     kind |-> None, text |-> "", second |-> None]

(***************************************************************************)
(* Gemini replies and the tools                                            *)
(***************************************************************************)
Texts == {"text-1", "text-2"}
Urls == {"https://a.example", "not a url"}
Timestamps == {"2025-01-01 09:00:00"}
ToolNames == {"get_current_time", "open_url", "delete_file"}
ArgSets == {{}} \cup {{<<"url", u>>} : u \in Urls}

\* response.candidates[0].content.parts: empty, or a first part that is text or a function_call
NoParts == [kind |-> "empty", text |-> "", name |-> None, args |-> {}]
TextPart(t) == [kind |-> "text", text |-> t, name |-> None, args |-> {}]
FunctionCall(n, a) == [kind |-> "function_call", text |-> "", name |-> n, args |-> a]

Replies ==
    {NoParts} \cup {TextPart(t) : t \in Texts}
              \cup {FunctionCall(n, a) : n \in ToolNames, a \in ArgSets}

available_tools == {"get_current_time", "open_url"}

Parameters(name) == IF name = "open_url" THEN {"url"} ELSE {}

get_current_time(now) == <<now>>

\* an open_url without its try / except: the text of the exception comes back
open_url_bare(url, browser) ==
    IF browser = None THEN <<"Successfully opened ", url>>
    ELSE <<browser>>

open_url(url, browser) ==
    IF browser = None THEN <<"Successfully opened ", url>>
    ELSE <<"Error opening ", url, ": ", browser>>

\* a lookup that falls back to get_current_time for an unknown name
Dispatch_fallback(name, args, now, browser) ==
    IF name \notin available_tools \/ name = "get_current_time"
    THEN [exc |-> None, invoked |-> TRUE, value |-> get_current_time(now)]
    ELSE IF {a[1] : a \in args} # Parameters(name)
    THEN [exc |-> "TypeError", invoked |-> FALSE, value |-> << >>]
    ELSE [exc |-> None, invoked |-> TRUE,
          value |-> open_url((CHOOSE a \in args : a[1] = "url")[2], browser)]

\* available_tools[tool_name](**tool_args) if tool_args else available_tools[tool_name]()
Dispatch(name, args, now, browser) ==
    IF name \notin available_tools
    THEN [exc |-> "KeyError", invoked |-> FALSE, value |-> << >>]
    ELSE IF {a[1] : a \in args} # Parameters(name)
    THEN [exc |-> "TypeError", invoked |-> FALSE, value |-> << >>]
    ELSE IF name = "get_current_time"
    THEN [exc |-> None, invoked |-> TRUE, value |-> get_current_time(now)]
    ELSE [exc |-> None, invoked |-> TRUE,
          value |-> open_url((CHOOSE a \in args : a[1] = "url")[2], browser)]

UserMessage(q) == [kind |-> "user", text |-> q, name |-> None, result |-> << >>]
FunctionResponse(n, r) == [kind |-> "function_response", text |-> None, name |-> n, result |-> r]

(***************************************************************************)
(* The keyword router of the clients.  A string is a sequence of           *)
(* one-character strings.                                                  *)
(***************************************************************************)
UpperCase == <<"A", "B", "C", "D", "E", "F", "G", "H", "I", "J", "K", "L", "M", "N", "O", "P", "Q", "R", "S", "T", "U", "V", "W", "X", "Y", "Z">>
LowerCase == <<"a", "b", "c", "d", "e", "f", "g", "h", "i", "j", "k", "l", "m", "n", "o", "p", "q", "r", "s", "t", "u", "v", "w", "x", "y", "z">>

\* str.lower() on the characters of the model
lower_char(c) ==
    IF \E i \in DOMAIN UpperCase : UpperCase[i] = c
    THEN LowerCase[CHOOSE i \in DOMAIN UpperCase : UpperCase[i] = c]
    ELSE c

lower(str) == [i \in 1..Len(str) |-> lower_char(str[i])]

\* Python's `keyword in query_lower`
Contains(str, keyword) ==
    \E i \in 0..(Len(str) - Len(keyword)) : SubSeq(str, i + 1, i + Len(keyword)) = keyword

\* any(keyword in query_lower for keyword in keywords)
AnyKeyword(str, keywords) == \E i \in DOMAIN keywords : Contains(str, keywords[i])

ENDPOINT_OLLAMA == "/chat/ollama"
ENDPOINT_TOOLS == "/chat/tools"
ENDPOINT_RAG == "/chat/rag"

text_tool_keywords ==
    << <<"t", "i", "m", "e">>,
       <<"o", "p", "e", "n">>,
       <<"w", "h", "a", "t", "'", "s", " ", "t", "h", "e", " ", "d", "a", "t", "e">>,
       <<"i", "n", "s", "t", "a", "l", "l">>,
       <<"p", "a", "c", "k", "a", "g", "e">>,
       <<"s", "o", "f", "t", "w", "a", "r", "e">> >>

text_rag_keywords ==
    << <<"r", "e", "s", "u", "m", "e">>,
       <<"k", "u", "n", "a", "l">>,
       <<"s", "k", "i", "l", "l", "s">>,
       <<"p", "r", "o", "j", "e", "c", "t">>,
       <<"c", "o", "n", "t", "a", "c", "t">> >>

\* the two keyword checks in the other order
text_choose_endpoint_rag_first(q) ==
    LET query_lower == lower(q) IN
    IF AnyKeyword(query_lower, text_rag_keywords) THEN ENDPOINT_RAG
    ELSE IF AnyKeyword(query_lower, text_tool_keywords) THEN ENDPOINT_TOOLS
    ELSE ENDPOINT_OLLAMA

text_choose_endpoint(q) ==
    LET query_lower == lower(q) IN
    IF AnyKeyword(query_lower, text_tool_keywords) THEN ENDPOINT_TOOLS
    ELSE IF AnyKeyword(query_lower, text_rag_keywords) THEN ENDPOINT_RAG
    ELSE ENDPOINT_OLLAMA

voice_tool_keywords ==
    << <<"t", "i", "m", "e">>,
       <<"o", "p", "e", "n">>,
       <<"w", "h", "a", "t", "'", "s", " ", "t", "h", "e", " ", "d", "a", "t", "e">>,
       <<"i", "n", "s", "t", "a", "l", "l">>,
       <<"p", "a", "c", "k", "a", "g", "e">>,
       <<"s", "o", "f", "t", "w", "a", "r", "e">> >>

voice_rag_keywords ==
    << <<"r", "e", "s", "u", "m", "e">>,
       <<"k", "u", "n", "a", "l">>,
       <<"s", "k", "i", "l", "l", "s">>,
       <<"p", "r", "o", "j", "e", "c", "t">>,
       <<"c", "o", "n", "t", "a", "c", "t">> >>

\* the keywords looked up in the utterance as spoken, not lower-cased
voice_choose_endpoint_no_lower(q) ==
    IF AnyKeyword(q, voice_tool_keywords) THEN ENDPOINT_TOOLS
    ELSE IF AnyKeyword(q, voice_rag_keywords) THEN ENDPOINT_RAG
    ELSE ENDPOINT_OLLAMA

voice_choose_endpoint(q) ==
    LET query_lower == lower(q) IN
    IF AnyKeyword(query_lower, voice_tool_keywords) THEN ENDPOINT_TOOLS
    ELSE IF AnyKeyword(query_lower, voice_rag_keywords) THEN ENDPOINT_RAG
    ELSE ENDPOINT_OLLAMA

\* the utterances of the model: up to MaxFrags fragments, one after the other
Fragments ==
    { <<"t", "i">>,
      <<"m", "e">>,
      <<"T", "i">>,
      <<"M", "E">>,
      <<"r", "e", "s", "u">>,
      <<"O", "p", "e", "n">>,
      <<"k", "u", "n", "a", "l">>,
      <<"S", "K", "I", "L", "L", "S">>,
      <<" ">>,
      <<"x">>,
      <<"w", "h", "a", "t", "'", "s", " ", "t", "h", "e", " ">>,
      <<"d", "a", "t", "e">> }

RECURSIVE Concatenations(_)
Concatenations(n) ==
    IF n = 0 THEN {<< >>}
    ELSE LET shorter == Concatenations(n - 1)
         IN shorter \cup {u \o f : u \in shorter, f \in Fragments}

Utterances == Concatenations(MaxFrags)

(***************************************************************************)
(* The main loops of the clients                                           *)
(***************************************************************************)
WAKE_WORD == <<"a", "x", "o", "n">>
EXECUTE_CMD == <<"E", "X", "E", "C", "U", "T", "E", "_", "C", "M", "D", ":">>

\* input() raising EOFError, recognize_google raising
EOFError == <<"EOFError">>
Unrecognised == <<"UnknownValueError">>
NotAsked == <<"not asked">>

\* what the user types at "You: "
TextInputs ==
    { << >>,
      <<"e", "x", "i", "t">>,
      <<"Q", "u", "i", "t">>,
      <<"w", "h", "a", "t", " ", "t", "i", "m", "e">>,
      <<"h", "e", "l", "l", "o">>,
      EOFError }

\* what the user types at "Is this okay? (y/n): "
TextConfirmations ==
    { <<"y">>,
      <<"Y">>,
      <<" ", "y", " ">>,
      <<"y", "e", "s">>,
      <<"n">>,
      << >>,
      EOFError }

\* what the microphone picks up
Audio ==
    { <<"A", "x", "o", "n">>,
      <<"h", "e", "l", "l", "o", " ", "a", "x", "o", "n">>,
      <<"h", "e", "l", "l", "o">>,
      <<"s", "t", "o", "p", " ", "n", "o", "w">>,
      <<"w", "h", "a", "t", " ", "t", "i", "m", "e">>,
      <<"Y", "e", "s">>,
      <<"d", "o", " ", "i", "t">>,
      <<"y", "e", "s", " ", "p", "l", "e", "a", "s", "e">>,
      Unrecognised }

ServerResponses ==
    { <<"E", "X", "E", "C", "U", "T", "E", "_", "C", "M", "D", ":", "l", "s">>,
      <<"E", "X", "E", "C", "U", "T", "E", "_", "C", "M", "D", ":", "a", ":", "b">>,
      <<"E", "X", "E", "C", "U", "T", "E", "_", "C", "M", "D", ":">>,
      <<"e", "x", "e", "c", "u", "t", "e", "_", "c", "m", "d", ":", "l", "s">>,
      <<" ", "E", "X", "E", "C", "U", "T", "E", "_", "C", "M", "D", ":", "l", "s">>,
      <<"h", "e", "l", "l", "o">> }

\* requests.post, raise_for_status, response.json(): an exception or the body
Posts ==
    { [kind |-> "RequestException", response |-> << >>],
      [kind |-> "error", response |-> << >>],
      [kind |-> "unknown", response |-> << >>] }
    \cup { [kind |-> "response", response |-> r] : r \in ServerResponses }

NoData == [kind |-> "none", response |-> << >>]
NoPost == [endpoint |-> None, query |-> << >>]

Whitespace == {" ", "\t", "\n"}

RECURSIVE lstrip(_)
lstrip(str) ==
    IF str # << >> /\ Head(str) \in Whitespace THEN lstrip(Tail(str)) ELSE str

RECURSIVE rstrip(_)
rstrip(str) ==
    IF str # << >> /\ str[Len(str)] \in Whitespace
    THEN rstrip(SubSeq(str, 1, Len(str) - 1)) ELSE str

strip(str) == rstrip(lstrip(str))

startswith(str, prefix) ==
    Len(str) >= Len(prefix) /\ SubSeq(str, 1, Len(prefix)) = prefix

\* server_response.split(":", 1)[1]
after_colon(str) ==
    LET i == CHOOSE j \in DOMAIN str : str[j] = ":" /\ \A l \in 1..(j - 1) : str[l] # ":"
    IN SubSeq(str, i + 1, Len(str))

\* r.recognize_google(audio).lower(), or "none" when it raises
take_command(audio) ==
    IF audio = Unrecognised THEN <<"n", "o", "n", "e">> ELSE lower(audio)

text_exit_words == { <<"e", "x", "i", "t">>,
      <<"q", "u", "i", "t">> }

exit_words == << <<"e", "x", "i", "t">>,
       <<"g", "o", "o", "d", "b", "y", "e">>,
       <<"s", "t", "o", "p">> >>

voice_confirmations == { <<"y", "e", "s">>,
      <<"y", "e", "p">>,
      <<"o", "k">>,
      <<"c", "o", "n", "f", "i", "r", "m">>,
      <<"d", "o", " ", "i", "t">> }

\* confirmation.lower().strip() == 'y'
text_confirmed(answer) == strip(lower(answer)) = <<"y">>

\* every recognised answer counts as a yes
voice_confirmed_any(answer) == TRUE

\* confirmation in ["yes", "yep", "ok", "confirm", "do it"]
voice_confirmed(answer) == answer \in voice_confirmations

IdleClients ==
    /\ client = None
    /\ cpc = "off"
    /\ listened = << >>
    /\ command = << >>
    /\ posted = NoPost
    /\ sent = 0
    /\ data = NoData
    /\ command_to_run = << >>
    /\ confirmation = NotAsked
    /\ ran = << >>

(***************************************************************************)
(* Start-up: the module-level code of each server file                     *)
(***************************************************************************)
Servers == {"axon_main", "main_with_tools", "main_with_rag"}

Environments ==
    [api_key : BOOLEAN, db_exists : BOOLEAN, chunks : 1..MaxChunks, ollama_init_ok : BOOLEAN]

\* every server exits when a backend cannot be set up
Exits_any(s, e) == ~e.api_key \/ ~e.db_exists

\* main_with_tools.py exits without GOOGLE_API_KEY, main_with_rag.py without faiss_db
Exits(s, e) ==
    \/ s = "main_with_tools" /\ ~e.api_key
    \/ s = "main_with_rag" /\ ~e.db_exists

init_ollama_client(s, e) ==
    IF s = "axon_main" /\ e.ollama_init_ok THEN "Client" ELSE None

init_tools_model(s, e) ==
    IF s \in {"axon_main", "main_with_tools"} /\ e.api_key THEN "GenerativeModel" ELSE None

\* start-up without the os.path.exists(DB_PATH) check
init_rag_chain_unchecked(s, e) ==
    IF s \in {"axon_main", "main_with_rag"} THEN "rag_chain" ELSE None

init_rag_chain(s, e) ==
    IF s \in {"axon_main", "main_with_rag"} /\ e.db_exists THEN "rag_chain" ELSE None

init_db(s, e) ==
    IF s \in {"axon_main", "main_with_rag"} /\ e.db_exists THEN Index(e.chunks) ELSE << >>

IdleRequest ==
    /\ endpoint = None
    /\ query = None
    /\ x = EmptyX
    /\ seen = EmptySeen
    /\ chat = << >>
    /\ tool = EmptyTool
    /\ calls = << >>
    /\ result = NoResult

\* FastAPI runs a `def` handler in a worker thread, next to the event loop
Threads == 1..MaxThreads
IdleThread == [pc |-> "idle", query |-> None, result |-> NoResult]
IdleThreads == threadpool = [t \in Threads |-> IdleThread]

IdleRouter ==
    /\ utterance = << >>
    /\ text_endpoint = None
    /\ voice_endpoint = None

Init ==
    /\ server \in Servers
    /\ env \in Environments
    /\ ~env.db_exists => env.chunks = 1
    /\ ollama_client = init_ollama_client(server, env)
    /\ tools_model = init_tools_model(server, env)
    /\ rag_chain = init_rag_chain(server, env)
    /\ db = init_db(server, env)
    /\ pc = IF Exits(server, env) THEN "exited" ELSE "idle"
    /\ IdleRequest
    /\ IdleRouter
    /\ IdleThreads
    /\ IdleClients

Ready == pc \in {"idle", "done"}

\* a new request starts with fresh locals
Begin(ep, q) ==
    /\ Ready
    /\ endpoint' = ep
    /\ query' = q

(***************************************************************************)
(* GET /                                                                   *)
(***************************************************************************)
StatusText(s) ==
    CASE s = "axon_main" -> <<"Axon Unified Server is online">>
      [] s = "main_with_tools" -> <<"Axon Core (with Tools) is online">>
      [] s = "main_with_rag" -> <<"Axon Core (with RAG) is online">>

Status(s) == [type |-> "dict", fields |-> {"status"}, status |-> StatusText(s)]

read_root ==
    /\ Begin("read_root", None)
    /\ result' = Status(server)
    /\ calls' = << >>
    /\ pc' = "done"
    /\ x' = EmptyX /\ seen' = EmptySeen /\ chat' = << >> /\ tool' = EmptyTool
    /\ UNCHANGED <<startup, router, threadpool, clients>>

(***************************************************************************)
(* POST /chat/ollama (axon_main.py)                                        *)
(***************************************************************************)
OllamaError(s, e) == <<"Ollama Chat Error: ", e>>

chat_ollama(q) ==
    /\ server = "axon_main"
    /\ Begin("chat_ollama", q)
    /\ IF ollama_client = None
       THEN /\ result' = ErrorTuple(<<"Ollama client is not initialized or server is offline.">>, 500)
            /\ calls' = << >>
            /\ pc' = "done"
       ELSE /\ result' = NoResult
            /\ calls' = <<Call("ollama_client")>>
            /\ pc' = "ollama_client"
    /\ x' = EmptyX /\ seen' = EmptySeen /\ chat' = << >> /\ tool' = EmptyTool
    /\ UNCHANGED <<startup, router, threadpool, clients>>

ollama_client_return(content) ==
    /\ pc = "ollama_client"
    /\ calls' = Append(calls, Return("ollama_client"))
    /\ result' = ChatResponse(content)
    /\ pc' = "done"
    /\ UNCHANGED <<startup, router, threadpool, clients, endpoint, query, x, seen, chat, tool>>

ollama_client_raise(e) ==
    /\ pc = "ollama_client"
    /\ calls' = Append(calls, Raise("ollama_client"))
    /\ result' = ErrorTuple(OllamaError(server, e), 500)
    /\ pc' = "done"
    /\ UNCHANGED <<startup, router, threadpool, clients, endpoint, query, x, seen, chat, tool>>

(***************************************************************************)
(* POST /chat/rag (axon_main.py), POST /chat_rag (main_with_rag.py)        *)
(***************************************************************************)
RagError(s, e) == IF s = "axon_main" THEN <<"RAG Query Error: ", e>> ELSE <<e>>

RagNotInitialized ==
    <<"RAG chain is not initialized. Vector store (faiss_db) missing or Ollama offline.">>

\* a chain without the rewriting step: the retriever is asked first
chat_with_rag_no_rewrite(q) ==
    /\ server \in {"axon_main", "main_with_rag"}
    /\ Begin("chat_with_rag", q)
    /\ result' = NoResult
    /\ x' = [EmptyX EXCEPT !.question = q, !.step_back_query = q]
    /\ seen' = [EmptySeen EXCEPT !.retriever = q, !.retriever_k = K]
    /\ calls' = <<Call("retriever")>>
    /\ pc' = "retriever"
    /\ chat' = << >> /\ tool' = EmptyTool
    /\ UNCHANGED <<startup, router, threadpool, clients>>

chat_with_rag(q) ==
    /\ server \in {"axon_main", "main_with_rag"}
    /\ Begin("chat_with_rag", q)
    /\ IF server = "axon_main" /\ rag_chain = None
       THEN /\ result' = ErrorTuple(RagNotInitialized, 500)
            /\ calls' = << >>
            /\ x' = EmptyX
            /\ seen' = EmptySeen
            /\ pc' = "done"
       ELSE \* rag_chain.invoke({"question": request.query}): first assign
            /\ result' = NoResult
            /\ x' = [EmptyX EXCEPT !.question = q]
            /\ seen' = [EmptySeen EXCEPT !.query_llm = step_back_prompt(x').question]
            /\ calls' = <<Call("query_llm")>>
            /\ pc' = "query_llm"
    /\ chat' = << >> /\ tool' = EmptyTool
    /\ UNCHANGED <<startup, router, threadpool, clients>>

\* the rewriter answered: second assign, lambda x: x["step_back_query"] | retriever
query_llm_return(r) ==
    /\ pc = "query_llm"
    /\ x' = [x EXCEPT !.step_back_query = r]
    /\ seen' = [seen EXCEPT !.retriever = x'.step_back_query, !.retriever_k = K]
    /\ calls' = calls \o <<Return("query_llm"), Call("retriever")>>
    /\ pc' = "retriever"
    /\ UNCHANGED <<startup, router, threadpool, clients, endpoint, query, chat, tool, result>>

\* the retriever answered: format_docs, then prompt | answer_llm
retriever_return(docs) ==
    /\ pc = "retriever"
    /\ x' = [x EXCEPT !.docs = docs, !.context = format_docs(docs)]
    /\ seen' = [seen EXCEPT !.answer_llm = prompt(x')]
    /\ calls' = calls \o <<Return("retriever"), Call("answer_llm")>>
    /\ pc' = "answer_llm"
    /\ UNCHANGED <<startup, router, threadpool, clients, endpoint, query, chat, tool, result>>

answer_llm_return(a) ==
    /\ pc = "answer_llm"
    /\ calls' = Append(calls, Return("answer_llm"))
    /\ result' = ChatResponse(a)
    /\ pc' = "done"
    /\ UNCHANGED <<startup, router, threadpool, clients, endpoint, query, x, seen, chat, tool>>

\* a failed step is tried once more before the error is reported
rag_raise_retry(e) ==
    /\ pc \in {"query_llm", "retriever", "answer_llm"}
    /\ IF \A i \in DOMAIN calls : calls[i].ev # "raise"
       THEN /\ calls' = calls \o <<Raise(pc), Call(pc)>>
            /\ UNCHANGED <<result, pc>>
       ELSE /\ calls' = Append(calls, Raise(pc))
            /\ result' = ErrorTuple(RagError(server, e), 500)
            /\ pc' = "done"
    /\ UNCHANGED <<startup, router, threadpool, clients, endpoint, query, x, seen, chat, tool>>

\* an exception of any step leaves rag_chain.invoke and reaches `except Exception`
rag_raise(e) ==
    /\ pc \in {"query_llm", "retriever", "answer_llm"}
    /\ calls' = Append(calls, Raise(pc))
    /\ result' = ErrorTuple(RagError(server, e), 500)
    /\ pc' = "done"
    /\ UNCHANGED <<startup, router, threadpool, clients, endpoint, query, x, seen, chat, tool>>

(***************************************************************************)
(* POST /chat/tools (axon_main.py), POST /chat_tools (main_with_tools.py)  *)
(***************************************************************************)
ToolsError(s, e) == IF s = "axon_main" THEN <<"Gemini Tool Error: ", e>> ELSE <<e>>

ToolNotFound(name) == <<"Tool '", name, "' not found.">>

\* a chat session that lives in the module and is used by every request
chat_with_tools_shared_session(q) ==
    /\ server \in {"axon_main", "main_with_tools"}
    /\ Begin("chat_with_tools", q)
    /\ result' = NoResult
    /\ chat' = Append(chat, UserMessage(q))
    /\ calls' = <<Call("tools_model")>>
    /\ pc' = "send_message_1"
    /\ x' = EmptyX /\ seen' = EmptySeen /\ tool' = EmptyTool
    /\ UNCHANGED <<startup, router, threadpool, clients>>

chat_with_tools(q) ==
    /\ server \in {"axon_main", "main_with_tools"}
    /\ Begin("chat_with_tools", q)
    /\ IF server = "axon_main" /\ tools_model = None
       THEN /\ result' = ErrorTuple(<<"Gemini API key not configured.">>, 500)
            /\ calls' = << >>
            /\ chat' = << >>
            /\ pc' = "done"
       ELSE \* start_chat, chat.send_message(request.query)
            /\ result' = NoResult
            /\ chat' = <<UserMessage(q)>>
            /\ calls' = <<Call("tools_model")>>
            /\ pc' = "send_message_1"
    /\ x' = EmptyX /\ seen' = EmptySeen /\ tool' = EmptyTool
    /\ UNCHANGED <<startup, router, threadpool, clients>>

\* the function_call of the first reply, and what webbrowser.open did
Called(r, out, browser) ==
    [EmptyTool EXCEPT !.name = r.name, !.args = r.args, !.result = out.value,
                      !.kind = r.kind, !.text = r.text,
                      !.browser = IF r.name = "open_url" /\ out.invoked
                                  THEN (IF browser = None THEN "returned" ELSE browser)
                                  ELSE "not called"]

\* ChatResponse(response=response.candidates[0].content.parts[0].text)
ReturnText(r) ==
    /\ result' = IF r.kind = "empty" THEN ErrorTuple(ToolsError(server, "IndexError"), 500)
                 ELSE ChatResponse(r.text)
    /\ pc' = "done"

\* the first reply of Gemini: the rest of the handler up to the second send_message
first_reply(r, now, browser) ==
    /\ pc = "send_message_1"
    /\ IF r.kind # "function_call"
       THEN /\ ReturnText(r)
            /\ calls' = Append(calls, Return("tools_model"))
            /\ tool' = [EmptyTool EXCEPT !.kind = r.kind, !.text = r.text]
            /\ UNCHANGED chat
       ELSE LET out == Dispatch(r.name, r.args, now, browser) IN
            IF server = "main_with_tools" /\ r.name \notin available_tools
            THEN /\ result' = ErrorTuple(ToolNotFound(r.name), 400)
                 /\ pc' = "done"
                 /\ tool' = Called(r, out, browser)
                 /\ calls' = Append(calls, Return("tools_model"))
                 /\ UNCHANGED chat
            ELSE IF out.exc # None
            THEN /\ result' = ErrorTuple(ToolsError(server, out.exc), 500)
                 /\ pc' = "done"
                 /\ tool' = Called(r, out, browser)
                 /\ calls' = Append(calls, Return("tools_model"))
                 /\ UNCHANGED chat
            ELSE /\ tool' = Called(r, out, browser)
                 /\ chat' = Append(chat, FunctionResponse(r.name, out.value))
                 /\ calls' = calls \o <<Return("tools_model"), Call(r.name), Return(r.name),
                                        Call("tools_model")>>
                 /\ pc' = "send_message_2"
                 /\ UNCHANGED result
    /\ UNCHANGED <<startup, router, threadpool, clients, endpoint, query, x, seen>>

second_reply(r) ==
    /\ pc = "send_message_2"
    /\ ReturnText(r)
    /\ calls' = Append(calls, Return("tools_model"))
    /\ tool' = [tool EXCEPT !.second = r.kind]
    /\ UNCHANGED <<startup, router, threadpool, clients, endpoint, query, x, seen, chat>>

tools_model_raise(e) ==
    /\ pc \in {"send_message_1", "send_message_2"}
    /\ calls' = Append(calls, Raise("tools_model"))
    /\ result' = ErrorTuple(ToolsError(server, e), 500)
    /\ pc' = "done"
    /\ UNCHANGED <<startup, router, threadpool, clients, endpoint, query, x, seen, chat, tool>>

Next ==
    \/ read_root
    \/ \E q \in Questions : chat_with_tools(q)
    \/ \E r \in Replies, now \in Timestamps, browser \in Exceptions \cup {None} :
          first_reply(r, now, browser)
    \/ \E r \in Replies : second_reply(r)
    \/ \E e \in Exceptions : tools_model_raise(e)
    \/ \E q \in Questions : chat_ollama(q)
    \/ \E a \in Answers : ollama_client_return(a)
    \/ \E e \in Exceptions : ollama_client_raise(e)
    \/ \E q \in Questions : chat_with_rag(q)
    \/ \E r \in Rewrites : query_llm_return(r)
    \/ pc = "retriever" /\ \E docs \in RetrieverResults(db, seen.retriever_k) : retriever_return(docs)
    \/ \E a \in Answers : answer_llm_return(a)
    \/ \E e \in Exceptions : rag_raise(e)

Spec == Init /\ [][Next]_vars

(***************************************************************************)
(* Concurrent requests.  chat_with_tools and chat_with_rag are `async def` *)
(* and make blocking calls, so the event loop runs one of them at a time;  *)
(* chat_ollama is `def` and runs in worker threads at the same time.       *)
(***************************************************************************)
request == <<pc, endpoint, query, x, seen, chat, tool, calls, result>>

thread_chat_ollama(t, q) ==
    /\ server = "axon_main"
    /\ threadpool[t].pc \in {"idle", "done"}
    /\ threadpool' = [threadpool EXCEPT ![t] =
          IF ollama_client = None
          THEN [pc |-> "done", query |-> q,
                result |-> ErrorTuple(<<"Ollama client is not initialized or server is offline.">>, 500)]
          ELSE [pc |-> "ollama_client", query |-> q, result |-> NoResult]]
    /\ UNCHANGED <<startup, router, request, clients>>

thread_ollama_client_return(t, content) ==
    /\ threadpool[t].pc = "ollama_client"
    /\ threadpool' = [threadpool EXCEPT ![t].pc = "done", ![t].result = ChatResponse(content)]
    /\ UNCHANGED <<startup, router, request, clients>>

thread_ollama_client_raise(t, e) ==
    /\ threadpool[t].pc = "ollama_client"
    /\ threadpool' = [threadpool EXCEPT
          ![t].pc = "done", ![t].result = ErrorTuple(OllamaError(server, e), 500)]
    /\ UNCHANGED <<startup, router, request, clients>>

NextConcurrent ==
    \/ Next
    \/ \E t \in Threads, q \in Questions : thread_chat_ollama(t, q)
    \/ \E t \in Threads, a \in Answers : thread_ollama_client_return(t, a)
    \/ \E t \in Threads, e \in Exceptions : thread_ollama_client_raise(t, e)

SpecConcurrent == Init /\ [][NextConcurrent]_vars

(***************************************************************************)
(* format_docs on its own: any list of at most MaxDocs documents, the      *)
(* empty list included, next to the lists the retriever returns             *)
(***************************************************************************)
DocumentLists ==
    LET index == Index(MaxChunks)
    IN UNION { { [i \in 1..n |-> Document(index, ids[i])] : ids \in [1..n -> 1..MaxChunks] } :
               n \in 0..MaxDocs }

FormatInput ==
    /\ server = "axon_main"
    /\ env = [api_key |-> TRUE, db_exists |-> TRUE, chunks |-> MaxChunks, ollama_init_ok |-> TRUE]
    /\ ollama_client = init_ollama_client(server, env)
    /\ tools_model = init_tools_model(server, env)
    /\ rag_chain = init_rag_chain(server, env)
    /\ db = init_db(server, env)
    /\ pc = "format_docs"
    /\ endpoint = None /\ query = None
    /\ x \in {[EmptyX EXCEPT !.docs = docs] : docs \in DocumentLists}
    /\ seen = EmptySeen /\ chat = << >> /\ tool = EmptyTool
    /\ calls = << >> /\ result = NoResult
    /\ IdleRouter
    /\ IdleThreads
    /\ IdleClients

apply_format_docs ==
    /\ pc = "format_docs"
    /\ x' = [x EXCEPT !.context = format_docs(x.docs)]
    /\ pc' = "formatted"
    /\ UNCHANGED <<startup, router, threadpool, clients, endpoint, query, seen, chat, tool, calls, result>>

InitFormat == Init \/ FormatInput

NextFormat == Next \/ apply_format_docs

SpecFormat == InitFormat /\ [][NextFormat]_vars

(***************************************************************************)
(* The router alone: choose_endpoint of each client applied to an          *)
(* utterance                                                               *)
(***************************************************************************)
InitRouter ==
    /\ server = "axon_main"
    /\ env = [api_key |-> TRUE, db_exists |-> TRUE, chunks |-> 1, ollama_init_ok |-> TRUE]
    /\ ollama_client = init_ollama_client(server, env)
    /\ tools_model = init_tools_model(server, env)
    /\ rag_chain = init_rag_chain(server, env)
    /\ db = init_db(server, env)
    /\ pc = "idle"
    /\ IdleRequest
    /\ IdleThreads
    /\ IdleClients
    /\ utterance \in Utterances
    /\ text_endpoint = None
    /\ voice_endpoint = None

text_route ==
    /\ text_endpoint = None
    /\ text_endpoint' = text_choose_endpoint(utterance)
    /\ UNCHANGED <<startup, request, threadpool, clients, utterance, voice_endpoint>>

voice_route ==
    /\ voice_endpoint = None
    /\ voice_endpoint' = voice_choose_endpoint(utterance)
    /\ UNCHANGED <<startup, request, threadpool, clients, utterance, text_endpoint>>

NextRouter == text_route \/ voice_route

SpecRouter == InitRouter /\ [][NextRouter]_vars

(***************************************************************************)
(* text_client.main and voice_client.main                                  *)
(***************************************************************************)
InitClients ==
    /\ server = "axon_main"
    /\ env = [api_key |-> TRUE, db_exists |-> TRUE, chunks |-> 1, ollama_init_ok |-> TRUE]
    /\ ollama_client = init_ollama_client(server, env)
    /\ tools_model = init_tools_model(server, env)
    /\ rag_chain = init_rag_chain(server, env)
    /\ db = init_db(server, env)
    /\ pc = "idle"
    /\ IdleRequest
    /\ IdleRouter
    /\ IdleThreads
    /\ client \in {"text", "voice"}
    /\ cpc = "listen"
    /\ listened = << >>
    /\ command = << >>
    /\ posted = NoPost
    /\ sent = 0
    /\ data = NoData
    /\ command_to_run = << >>
    /\ confirmation = NotAsked
    /\ ran = << >>

serverside == <<startup, router, threadpool, request>>

\* command = input("You: ") down to requests.post
text_input(typed) ==
    /\ client = "text" /\ cpc = "listen"
    /\ IF typed = EOFError
       THEN /\ cpc' = "stopped"
            /\ UNCHANGED <<command, posted, sent>>
       ELSE /\ command' = typed
            /\ IF lower(typed) \in text_exit_words
               THEN /\ cpc' = "stopped"
                    /\ sent' = 0
                    /\ UNCHANGED posted
               ELSE IF typed # << >>
               THEN /\ posted' = [endpoint |-> text_choose_endpoint(typed), query |-> typed]
                    /\ sent' = 1
                    /\ cpc' = "post"
               ELSE /\ cpc' = "listen"
                    /\ sent' = 0
                    /\ UNCHANGED posted
    /\ UNCHANGED <<serverside, client, listened, data, command_to_run, confirmation, ran>>

\* data = response.json() down to the confirmation prompt
handle_response(body) ==
    /\ data' = body
    /\ confirmation' = NotAsked
    /\ ran' = << >>
    /\ IF body.kind = "response" /\ startswith(body.response, EXECUTE_CMD)
       THEN /\ command_to_run' = after_colon(body.response)
            /\ cpc' = "confirm"
       ELSE /\ cpc' = "listen"
            /\ UNCHANGED command_to_run

text_response(body) ==
    /\ client = "text" /\ cpc = "post"
    /\ handle_response(body)
    /\ UNCHANGED <<serverside, client, listened, command, posted, sent>>

\* confirmation = input("Is this okay? (y/n): ") and subprocess.run
text_confirm(typed) ==
    /\ client = "text" /\ cpc = "confirm"
    /\ IF typed = EOFError
       THEN /\ cpc' = "crashed"
            /\ UNCHANGED <<confirmation, ran>>
       ELSE /\ confirmation' = typed
            /\ ran' = IF text_confirmed(typed) THEN <<command_to_run>> ELSE << >>
            /\ cpc' = "listen"
    /\ UNCHANGED <<serverside, client, listened, command, posted, sent, data, command_to_run>>

\* query = take_command(); if WAKE_WORD in query
voice_listen(audio) ==
    /\ client = "voice" /\ cpc = "listen"
    /\ listened' = take_command(audio)
    /\ sent' = 0
    /\ cpc' = IF Contains(listened', WAKE_WORD) THEN "command" ELSE "listen"
    /\ UNCHANGED <<serverside, client, command, posted, data, command_to_run, confirmation, ran>>

\* the command is heard although nothing was understood
voice_command_unchecked(audio) ==
    /\ client = "voice" /\ cpc = "command"
    /\ command' = take_command(audio)
    /\ IF AnyKeyword(command', exit_words)
       THEN cpc' = "stopped" /\ UNCHANGED <<posted, sent>>
       ELSE /\ posted' = [endpoint |-> voice_choose_endpoint(command'), query |-> command']
            /\ sent' = sent + 1
            /\ cpc' = "post"
    /\ UNCHANGED <<serverside, client, listened, data, command_to_run, confirmation, ran>>

\* command = take_command() down to requests.post
voice_command(audio) ==
    /\ client = "voice" /\ cpc = "command"
    /\ command' = take_command(audio)
    /\ IF command' = take_command(Unrecognised)
       THEN cpc' = "listen" /\ UNCHANGED <<posted, sent>>
       ELSE IF AnyKeyword(command', exit_words)
       THEN cpc' = "stopped" /\ UNCHANGED <<posted, sent>>
       ELSE IF command' # << >>
       THEN /\ posted' = [endpoint |-> voice_choose_endpoint(command'), query |-> command']
            /\ sent' = sent + 1
            /\ cpc' = "post"
       ELSE cpc' = "listen" /\ UNCHANGED <<posted, sent>>
    /\ UNCHANGED <<serverside, client, listened, data, command_to_run, confirmation, ran>>

voice_response(body) ==
    /\ client = "voice" /\ cpc = "post"
    /\ handle_response(body)
    /\ UNCHANGED <<serverside, client, listened, command, posted, sent>>

\* confirmation = take_command() and subprocess.run
voice_confirm(audio) ==
    /\ client = "voice" /\ cpc = "confirm"
    /\ confirmation' = take_command(audio)
    /\ ran' = IF voice_confirmed(confirmation') THEN <<command_to_run>> ELSE << >>
    /\ cpc' = "listen"
    /\ UNCHANGED <<serverside, client, listened, command, posted, sent, data, command_to_run>>

NextClients ==
    \/ \E typed \in TextInputs : text_input(typed)
    \/ \E body \in Posts : text_response(body)
    \/ \E typed \in TextConfirmations : text_confirm(typed)
    \/ \E audio \in Audio : voice_listen(audio)
    \/ \E audio \in Audio : voice_command(audio)
    \/ \E body \in Posts : voice_response(body)
    \/ \E audio \in Audio : voice_confirm(audio)

SpecClients == InitClients /\ [][NextClients]_vars

(***************************************************************************)
(* Properties                                                              *)
(***************************************************************************)
Has(ev) == \E i \in DOMAIN calls : calls[i] = ev
Count(ev) == Cardinality({i \in DOMAIN calls : calls[i] = ev})
Before(a, b) == \A i \in DOMAIN calls : calls[i] = b => \E j \in 1..(i - 1) : calls[j] = a
RagRequest == endpoint = "chat_with_rag"
ToolsRequest == endpoint = "chat_with_tools"
Done == pc = "done"

\* C1: in one rag_chain.invoke the Rewriter is invoked first, the Retriever
\* only after the Rewriter has returned and the Answer Generator only after
\* the Retriever has returned; a request that is answered has called the
\* three, in that order, once each.
TheoremC1 ==
    RagRequest =>
        /\ calls # << >> => calls[1] = Call("query_llm")
        /\ Before(Return("query_llm"), Call("retriever"))
        /\ Before(Return("retriever"), Call("answer_llm"))
        /\ (Done /\ result.type = "ChatResponse") =>
              calls = <<Call("query_llm"), Return("query_llm"), Call("retriever"),
                        Return("retriever"), Call("answer_llm"), Return("answer_llm")>>

WitnessC1 == RagRequest /\ Done /\ result.type = "ChatResponse" /\ Len(calls) = 6

\* C2: the Rewriter is given the original question, the Retriever is queried
\* with the Rewriter's output r, and the question of the Answer Generator's
\* prompt is the original question q, also when r differs from q.
TheoremC2 ==
    RagRequest =>
        /\ Has(Call("query_llm")) => seen.query_llm = query
        /\ Has(Call("retriever")) => seen.retriever = x.step_back_query
        /\ Has(Call("answer_llm")) =>
              /\ seen.answer_llm.question = query
              /\ x.step_back_query # query => seen.answer_llm.question # x.step_back_query

WitnessC2 ==
    /\ RagRequest /\ Done /\ result.type = "ChatResponse"
    /\ x.step_back_query # query
    /\ seen.retriever = "step-back"

UnknownTool == ToolsRequest /\ tool.name \notin available_tools \cup {None}

\* C3: when the function call of the model names a tool that is not in
\* available_tools the request ends in an error, no tool function is invoked
\* and no function_response is sent to the model.
TheoremC3 ==
    UnknownTool =>
        /\ Done
        /\ result.type = "tuple" /\ result.fields = {"error"}
        /\ \A i \in DOMAIN calls : calls[i].comp \notin available_tools
        /\ \A i \in DOMAIN chat : chat[i].kind # "function_response"
        /\ Count(Call("tools_model")) = 1

WitnessC3 == UnknownTool /\ Done /\ server = "axon_main" /\ tool.name = "delete_file"

\* C4: an unknown tool name is answered with a 400-class status, unlike the
\* 500 of a failed upstream call, in axon_main.py and in main_with_tools.py.
CounterC4 ==
    (UnknownTool /\ Done) => (result.type = "tuple" /\ result.status = 400)

\* the reference classification of the router: keyword sets of the spec
ToolKeywords == {text_tool_keywords[i] : i \in DOMAIN text_tool_keywords}
RagKeywords == {text_rag_keywords[i] : i \in DOMAIN text_rag_keywords}
HasToolKeyword(u) == \E kw \in ToolKeywords : Contains(lower(u), kw)
HasRagKeyword(u) == \E kw \in RagKeywords : Contains(lower(u), kw)
Routed == {e \in {text_endpoint, voice_endpoint} : e # None}

\* C5: an utterance with at least one TOOLS keyword is routed to the TOOLS
\* endpoint by both clients, whether or not it also holds a RAG keyword.
TheoremC5 ==
    HasToolKeyword(utterance) => \A e \in Routed : e = ENDPOINT_TOOLS

WitnessC5 ==
    /\ HasToolKeyword(utterance) /\ HasRagKeyword(utterance)
    /\ text_endpoint = ENDPOINT_TOOLS /\ voice_endpoint = ENDPOINT_TOOLS

\* C6: choose_endpoint returns one of the three endpoints: RAG exactly when
\* the lower-cased utterance has no TOOLS keyword and some RAG keyword,
\* GENERAL exactly when it has no keyword of either set; the two clients
\* agree on every utterance.
TheoremC6 ==
    /\ \A e \in Routed :
          /\ e \in {ENDPOINT_OLLAMA, ENDPOINT_TOOLS, ENDPOINT_RAG}
          /\ e = ENDPOINT_RAG <=> (~HasToolKeyword(utterance) /\ HasRagKeyword(utterance))
          /\ e = ENDPOINT_OLLAMA <=> (~HasToolKeyword(utterance) /\ ~HasRagKeyword(utterance))
    /\ (text_endpoint # None /\ voice_endpoint # None) => text_endpoint = voice_endpoint

WitnessC6 ==
    /\ text_endpoint = ENDPOINT_RAG /\ voice_endpoint = ENDPOINT_RAG
    /\ utterance # lower(utterance)

IndexMissing == server = "axon_main" /\ ~env.db_exists /\ RagRequest

\* C7: the unified server started without the index directory answers every
\* /chat/rag request with its error message: the handler returns, the value
\* has no response, and no step of the chain is invoked.
TheoremC7 ==
    IndexMissing =>
        /\ Done
        /\ result.type = "tuple" /\ result.fields = {"error"}
        /\ result.error = RagNotInitialized
        /\ calls = << >>
        /\ seen = EmptySeen

WitnessC7 == IndexMissing /\ Done /\ result.type = "tuple"

RagSteps == {"query_llm", "retriever", "answer_llm"}
Failed == \E i \in DOMAIN calls : calls[i].ev = "raise"

\* C8: when a step of the chain raises, the request ends with one error
\* string and no answer: the raise is the last event, no later step was
\* invoked and no step was invoked twice.
TheoremC8 ==
    (RagRequest /\ Failed) =>
        /\ Done
        /\ result.type = "tuple" /\ result.fields = {"error"}
        /\ \E e \in Exceptions : result.error = RagError(server, e)
        /\ calls[Len(calls)].ev = "raise"
        /\ \A i \in 1..(Len(calls) - 1) : calls[i].ev # "raise"
        /\ \A c \in RagSteps : Count(Call(c)) <= 1
        /\ calls[Len(calls)].comp = "query_llm" => ~Has(Call("retriever"))
        /\ calls[Len(calls)].comp # "answer_llm" => ~Has(Call("answer_llm"))

WitnessC8 ==
    /\ RagRequest /\ Done /\ calls # << >>
    /\ calls[Len(calls)] = Raise("retriever")

PostEndpoints == {"chat_ollama", "chat_with_tools", "chat_with_rag"}

\* C9: the value a handler of axon_main.py returns is an object with a
\* response field or an object with an error field, on every path.
CounterC9 ==
    (server = "axon_main" /\ Done /\ endpoint \in PostEndpoints) =>
        /\ result.type \in {"ChatResponse", "dict"}
        /\ result.fields \in {{"response"}, {"error"}}

Separators(text) == Cardinality({i \in DOMAIN text : text[i] = "\n\n"})

\* C10: the retriever is asked for 5 chunks on every request and returns at
\* most 5 and at most as many as the index holds, each of them once; the
\* context of the Answer Generator is built from these chunks only.
TheoremC10 ==
    (RagRequest /\ Has(Return("retriever"))) =>
        /\ seen.retriever_k = 5
        /\ Len(x.docs) <= 5
        /\ Len(x.docs) <= Len(db)
        /\ \A i, j \in DOMAIN x.docs : x.docs[i].id = x.docs[j].id => i = j
        /\ \A i \in DOMAIN x.docs : x.docs[i].id \in DOMAIN db
        /\ Separators(seen.answer_llm.context) < Min(5, Len(db))

WitnessC10 ==
    /\ RagRequest /\ Done /\ result.type = "ChatResponse"
    /\ Len(db) > 5 /\ Len(x.docs) = 5

NotInitialized ==
    { ErrorTuple(<<"Ollama client is not initialized or server is offline.">>, 500),
      ErrorTuple(<<"Gemini API key not configured.">>, 500),
      ErrorTuple(RagNotInitialized, 500) }

\* the request of the event loop starts in this step
Begins == Ready /\ request' # request

\* what a request that starts may see: nothing but its own query
FreshRequest ==
    /\ x' \in {EmptyX, [EmptyX EXCEPT !.question = query']}
    /\ chat' \in {<< >>, <<UserMessage(query')>>}
    /\ tool' = EmptyTool
    /\ \A i \in DOMAIN calls' : calls'[i].ev = "call"
    /\ Len(calls') <= 1
    /\ result' \in {NoResult, Status(server)} \cup NotInitialized

\* the chat session holds the messages of this request only
OwnSession ==
    /\ Len(chat') <= 2
    /\ chat' # << >> => chat'[1] = UserMessage(query')
    /\ Len(chat') = 2 => chat'[2] = FunctionResponse(tool'.name, tool'.result)

StepC11 ==
    /\ UNCHANGED startup
    /\ Begins => FreshRequest
    /\ OwnSession
    /\ request' # request => UNCHANGED threadpool
    /\ threadpool' # threadpool =>
          /\ UNCHANGED request
          /\ \A t \in Threads :
                (threadpool'[t] # threadpool[t] /\ threadpool[t].pc # "ollama_client") =>
                    threadpool'[t].result \in {NoResult} \cup NotInitialized

\* C11: no step of a request, whatever the interleaving of the event loop
\* and the worker threads, changes the index or a module-level client or the
\* locals of another request; a request starts from its query alone and
\* its Gemini chat session holds its own messages only.
TheoremC11 == [][StepC11]_vars

WitnessC11 ==
    /\ \E t \in Threads : threadpool[t].pc = "ollama_client" /\ threadpool[t].query = "q2"
    /\ ToolsRequest /\ pc = "send_message_2" /\ query = "q1"

OpenUrlRan == ToolsRequest /\ tool.browser # "not called"

\* C12: open_url returns 'Successfully opened <url>' when webbrowser.open
\* returns and 'Error opening <url>: ...' when it raises; the handler gets a
\* string in both cases and sends it on to the model.
TheoremC12 ==
    OpenUrlRan =>
        /\ tool.name = "open_url"
        /\ \E u \in Urls :
              /\ tool.args = {<<"url", u>>}
              /\ tool.browser = "returned" => tool.result = <<"Successfully opened ", u>>
              /\ tool.browser # "returned" =>
                    /\ Len(tool.result) = 4
                    /\ SubSeq(tool.result, 1, 3) = <<"Error opening ", u, ": ">>
        /\ Has(Return("open_url")) /\ ~Has(Raise("open_url"))
        /\ Len(chat) = 2 /\ chat[2] = FunctionResponse("open_url", tool.result)

WitnessC12 ==
    /\ OpenUrlRan /\ tool.browser \in Exceptions
    /\ Done /\ result.type = "ChatResponse"

ToolCalls == {i \in DOMAIN calls : calls[i].comp \in available_tools /\ calls[i].ev = "call"}

\* C13: at most one tool runs in a /chat/tools request, only for a function
\* call of the first reply, between the first reply and the second message;
\* a first reply without function call ends the request with its text after
\* one message; a function call of the second reply is not run.
CounterC13 ==
    ToolsRequest =>
        /\ Cardinality(ToolCalls) <= 1
        /\ \A i \in ToolCalls :
              /\ tool.kind = "function_call"
              /\ calls[i].comp = tool.name
              /\ i = 3 /\ calls[2] = Return("tools_model")
              /\ calls[i + 1] = Return(tool.name) /\ calls[i + 2] = Call("tools_model")
        /\ (Done /\ tool.kind \in {"text", "empty"}) =>
              /\ ToolCalls = {}
              /\ Count(Call("tools_model")) = 1
              /\ result.type = "ChatResponse" /\ result.response = tool.text
        /\ tool.second = "function_call" => (Done /\ Cardinality(ToolCalls) = 1)

\* where the text of the i-th chunk starts in the context, less one
RECURSIVE Offset(_, _)
Offset(docs, i) ==
    IF i = 1 THEN 0 ELSE Offset(docs, i - 1) + Len(docs[i - 1].page_content) + 1

Joined(docs, context) ==
    /\ docs = << >> => context = << >>
    /\ docs # << >> => Len(context) = Offset(docs, Len(docs) + 1) - 1
    /\ \A i \in DOMAIN docs :
          SubSeq(context, Offset(docs, i) + 1, Offset(docs, i) + Len(docs[i].page_content))
             = docs[i].page_content
    /\ \A i \in 2..Len(docs) : context[Offset(docs, i)] = "\n\n"

\* C14: the context is the text of the chunks the retriever returned, each
\* once and in that order, with a blank line between two chunks; no chunks
\* give an empty context; the Answer Generator is given this context.
TheoremC14 ==
    /\ pc = "formatted" => Joined(x.docs, x.context)
    /\ (RagRequest /\ Has(Call("answer_llm"))) =>
          /\ Joined(x.docs, x.context)
          /\ seen.answer_llm.context = x.context

WitnessC14 ==
    /\ RagRequest /\ Done /\ result.type = "ChatResponse"
    /\ Len(x.docs) = 5
    /\ x.docs[1].id > x.docs[2].id
    /\ \E i \in DOMAIN x.docs : x.docs[i].page_content = << >>

\* a command was handed to subprocess.run for the current server response
Executed == ran # << >>

IsExecuteCmd == data.kind = "response" /\ startswith(data.response, EXECUTE_CMD)

VoiceYes == { <<"y", "e", "s">>, <<"y", "e", "p">>, <<"o", "k">>, <<"c", "o", "n", "f", "i", "r", "m">>, <<"d", "o", " ", "i", "t">> }

\* C15 as stated: in both clients a command is executed only for a response that
\* starts with EXECUTE_CMD: and a confirmation that is 'y' in the text client or
\* one of yes/yep/ok/confirm/do it in the voice client, and at most once per
\* server response.
CounterC15 ==
    /\ Len(ran) <= 1
    /\ Executed =>
        /\ IsExecuteCmd
        /\ \/ client = "text" /\ confirmation = <<"y">>
           \/ client = "voice" /\ confirmation \in VoiceYes

\* C15: in both clients a command is executed only for a response that starts with
\* EXECUTE_CMD: and a confirmation, taken right after the prompt, that is 'y' once
\* lower-cased and stripped of surrounding whitespace in the text client, or one
\* of yes/yep/ok/confirm/do it in the voice client; the command executed is the
\* text after the first colon; any other confirmation, a failed recognition
\* included, executes nothing; at most one command is executed per response.
TheoremC15 ==
    /\ Len(ran) <= 1
    /\ confirmation = NotAsked => ~Executed
    /\ Executed =>
        /\ IsExecuteCmd
        /\ ran = <<after_colon(data.response)>>
        /\ \/ client = "text" /\ strip(lower(confirmation)) = <<"y">>
           \/ client = "voice" /\ confirmation \in VoiceYes

WitnessC15 ==
    /\ client = "text"
    /\ IsExecuteCmd
    /\ confirmation = <<" ", "y", " ">>
    /\ ran = <<<<"a", ":", "b">>>>
    /\ cpc = "listen"

HeardWakeWord == Contains(listened, <<"a", "x", "o", "n">>)

CommandNone == command = <<"n", "o", "n", "e">>

CommandExit ==
    \/ Contains(command, <<"e", "x", "i", "t">>)
    \/ Contains(command, <<"g", "o", "o", "d", "b", "y", "e">>)
    \/ Contains(command, <<"s", "t", "o", "p">>)

\* C16: the voice client sends a request only for the command captured right after
\* an utterance containing the wake word: while the last utterance heard at the top
\* of the loop lacks the wake word the client only listens; at most one request is
\* sent per detection, and it carries that command; an unrecognised command
\* ('none') sends nothing and goes back to listening; a command with an exit word
\* sends nothing and ends the loop.
TheoremC16 ==
    client = "voice" =>
        /\ sent <= 1
        /\ ~HeardWakeWord => cpc = "listen" /\ sent = 0
        /\ cpc = "post" =>
            /\ HeardWakeWord
            /\ sent = 1
            /\ posted.query = command
            /\ ~CommandNone /\ ~CommandExit
        /\ CommandNone => sent = 0 /\ cpc \in {"listen", "command"}
        /\ CommandExit /\ cpc # "command" => sent = 0 /\ cpc = "stopped"
        /\ cpc = "stopped" => CommandExit /\ sent = 0

WitnessC16 ==
    /\ client = "voice"
    /\ cpc = "post"
    /\ HeardWakeWord
    /\ sent = 1
    /\ posted.query = <<"w", "h", "a", "t", " ", "t", "i", "m", "e">>

Unified == server = "axon_main"

OllamaOutcomes ==
    {ChatResponse(a) : a \in Answers}
    \cup {ErrorTuple(<<"Ollama Chat Error: ", e>>, 500) : e \in Exceptions}

\* C17: axon_main.py starts whatever is missing; without GOOGLE_API_KEY the tools
\* endpoint, and without the faiss_db directory the RAG endpoint, ends every
\* request with its own not-configured / not-initialized error, having called no
\* model and run no tool; an endpoint whose own backend was set up starts with
\* the call to that backend and never answers with a not-initialized error,
\* whatever the state of the other two backends, and GET / returns the status.
TheoremC17 ==
    Unified =>
        /\ pc # "exited"
        /\ tools_model = None <=> ~env.api_key
        /\ rag_chain = None <=> ~env.db_exists
        /\ ollama_client = None <=> ~env.ollama_init_ok
        /\ (ToolsRequest /\ ~env.api_key) =>
              /\ Done /\ calls = << >> /\ chat = << >> /\ tool = EmptyTool
              /\ result = ErrorTuple(<<"Gemini API key not configured.">>, 500)
        /\ (RagRequest /\ ~env.db_exists) =>
              /\ Done /\ calls = << >> /\ x = EmptyX /\ seen = EmptySeen
              /\ result = ErrorTuple(RagNotInitialized, 500)
        /\ (ToolsRequest /\ env.api_key) =>
              /\ calls # << >> /\ calls[1] = Call("tools_model")
              /\ result \notin NotInitialized
        /\ (RagRequest /\ env.db_exists) =>
              /\ calls # << >> /\ calls[1] = Call("query_llm")
              /\ result \notin NotInitialized
        /\ (endpoint = "chat_ollama" /\ env.ollama_init_ok) =>
              /\ calls # << >> /\ calls[1] = Call("ollama_client")
              /\ Done => result \in OllamaOutcomes
        /\ endpoint = "read_root" =>
              /\ Done /\ calls = << >>
              /\ result = [type |-> "dict", fields |-> {"status"},
                           status |-> <<"Axon Unified Server is online">>]

WitnessC17 ==
    /\ Unified
    /\ ~env.api_key /\ ~env.db_exists
    /\ endpoint = "chat_ollama"
    /\ Done
    /\ result \in {ChatResponse(a) : a \in Answers}

====
